---- MODULE Spec2Model ----
(***************************************************************************)
(* Model of the chat / RAG service of chat-api-langchain-ollama:           *)
(*   app/services/qa.py  QAService (sessions, documents, vector_store)     *)
(*   app/api/chat.py     the HTTP handlers over the service singleton      *)
(*                                                                         *)
(* Text is modelled as a sequence of tokens, so that concatenation,        *)
(* stripping and suffix tests are computed and not assumed.  The content   *)
(* of an uploaded file is a named text of a given length; a slice of it is *)
(* a record [src, from, len].  Wall-clock latency is not modelled.         *)
(***************************************************************************)
EXTENDS Integers, Sequences, FiniteSets, TLC

VARIABLES
    sessions,      \* QAService.sessions: session id -> memory object
    memories,      \* heap of ConversationBufferMemory objects: id -> turns
    documents,     \* QAService.documents
    vector_store,  \* QAService.vector_store (FAISS index) or None
    requests,      \* the requests in flight (awaiting the worker thread)
    response       \* the HTTP response sent last

vars == <<sessions, memories, documents, vector_store, requests, response>>

(***************************** bounds **************************************)
MaxDocs == 2        \* uploads accepted into QAService.documents
MaxExchanges == 2   \* exchanges recorded in one conversation memory

(*************************** input domains *********************************)
\* the coroutines that can be awaiting the worker thread at once
Reqs == {1, 2}

\* Optional[str]: <<>> is None, <<s>> is the string s.
None == <<>>
Some(s) == <<s>>
SessionNames == {"s1", "s2"}
SessionIdInputs == {None, Some("")} \cup {Some(s) : s \in SessionNames}

\* /ask: the session_id is only echoed; one /ask is in flight at a time
AskSessionIds == {None, Some("s1")}
AskReqs == {1}

Messages == {<<"m1">>}
Questions == {<<"q1">>, <<"q2">>}
\* what the model generates (raw, before .strip())
LLMOutputs == {<<" ", "a1", " ">>}
\* str(e) of the exceptions raised by the inference client
ErrorTexts == {<<"timeout">>}

Filenames == {<<"a", ".", "m", "d">>, <<"b", ".", "t", "x", "t">>,
              <<"c", ".", "p", "d", "f">>}
DocumentTypes == {"text"}
\* File contents: name of the text, its length in characters, whether it is
\* whitespace only, whether its bytes decode as UTF-8.  Texts that are not
\* blank hold no separator ("\n\n", "\n", " "), so the splitter falls back
\* to its character-level separator "".
FileContents ==
    { [src |-> "short", len |-> 150, blank |-> FALSE, utf8 |-> TRUE],
      [src |-> "long", len |-> 2700, blank |-> FALSE, utf8 |-> TRUE],
      [src |-> "spaces", len |-> 4, blank |-> TRUE, utf8 |-> TRUE],
      [src |-> "empty", len |-> 0, blank |-> TRUE, utf8 |-> TRUE],
      [src |-> "binary", len |-> 8, blank |-> FALSE, utf8 |-> FALSE] }

(************************** program constants ******************************)
chunk_size == 1000
chunk_overlap == 200
search_k == 3
source_limit == 200
ellipsis_len == 3     \* len("...")

(***************************** text helpers ********************************)
IsSpace(t) == t = " "

RECURSIVE lstrip(_)
lstrip(s) == IF s # <<>> /\ IsSpace(Head(s)) THEN lstrip(Tail(s)) ELSE s

RECURSIVE rstrip(_)
rstrip(s) ==
    IF s # <<>> /\ IsSpace(s[Len(s)]) THEN rstrip(SubSeq(s, 1, Len(s) - 1)) ELSE s

\* str.strip()
strip(s) == rstrip(lstrip(s))

\* str.endswith(suffix)
endswith(s, suffix) ==
    /\ Len(suffix) <= Len(s)
    /\ SubSeq(s, Len(s) - Len(suffix) + 1, Len(s)) = suffix

\* s contains t as a contiguous run of tokens
Embeds(s, t) ==
    \E i \in 1..(Len(s) - Len(t) + 1) : SubSeq(s, i, i + Len(t) - 1) = t

Min(a, b) == IF a <= b THEN a ELSE b

Range(f) == {f[x] : x \in DOMAIN f}

(*************************** inference client ******************************)
\* Outcome of one call to the inference server (llm.invoke, the embedding
\* call): the generated text, or an exception with its text.
Completed(text) == [ok |-> TRUE, text |-> text]
Failed(e) == [ok |-> FALSE, error |-> e]
LLMOutcomes == {Completed(o) : o \in LLMOutputs} \cup {Failed(e) : e \in ErrorTexts}
EmbedOutcomes == {Completed(<<>>)} \cup {Failed(e) : e \in ErrorTexts}

(*************************** conversation store ****************************)
\* `not session_id`: None and the empty string are both falsy.
Falsy(session_id) == session_id = None \/ session_id[1] = ""

\* A ConversationBufferMemory() not yet on the heap.
NewMemory(mems) == CHOOSE n \in 1..(Cardinality(DOMAIN mems) + 1) : n \notin DOMAIN mems

Allocate(mems) == mems @@ (NewMemory(mems) :> <<>>)

\* Variant: the memory of a call without session is kept in the session map
\* under one shared key.
get_or_create_session_memory_shared(sess, mems, session_id) ==
    LET key == IF Falsy(session_id) THEN "" ELSE session_id[1]
    IN IF key \notin DOMAIN sess
       THEN [sessions |-> sess @@ (key :> NewMemory(mems)),
             memories |-> Allocate(mems), memory |-> NewMemory(mems)]
       ELSE [sessions |-> sess, memories |-> mems, memory |-> sess[key]]

\* Variant: the membership test is missing, every call stores a new memory.
get_or_create_session_memory_always_new(sess, mems, session_id) ==
    IF Falsy(session_id)
    THEN [sessions |-> sess, memories |-> Allocate(mems), memory |-> NewMemory(mems)]
    ELSE [sessions |-> [k \in DOMAIN sess \cup {session_id[1]} |->
                           IF k = session_id[1] THEN NewMemory(mems) ELSE sess[k]],
          memories |-> Allocate(mems), memory |-> NewMemory(mems)]

\* QAService._get_or_create_session_memory: the session map and heap after
\* the call, and the memory object returned.
get_or_create_session_memory(sess, mems, session_id) ==
    IF Falsy(session_id)
    THEN [sessions |-> sess, memories |-> Allocate(mems), memory |-> NewMemory(mems)]
    ELSE IF session_id[1] \notin DOMAIN sess
    THEN [sessions |-> sess @@ (session_id[1] :> NewMemory(mems)),
          memories |-> Allocate(mems), memory |-> NewMemory(mems)]
    ELSE [sessions |-> sess, memories |-> mems, memory |-> sess[session_id[1]]]

\* Variant: the entry is not deleted.
clear_session_memory_keep(sess, session_id) == sess

\* Variant: every session is dropped (sessions.clear()).
clear_session_memory_all(sess, session_id) ==
    IF session_id \in DOMAIN sess THEN [s \in {} |-> 0] ELSE sess

\* QAService.clear_session_memory
clear_session_memory(sess, session_id) ==
    IF session_id \in DOMAIN sess
    THEN [s \in DOMAIN sess \ {session_id} |-> sess[s]]
    ELSE sess

\* QAService.get_session_count
get_session_count(sess) == Cardinality(DOMAIN sess)

\* Memory objects no session and no request refers to are reclaimed.
ChainPcs == {"chat_submitted", "chat_called", "chat_returned", "chat_human_saved"}

MemoriesOf(reqs) ==
    {reqs[r].memory : r \in {q \in DOMAIN reqs : reqs[q].pc \in ChainPcs \cup {"chat_done"}}}

Collect(mems, sess, reqs) ==
    [m \in DOMAIN mems \cap (Range(sess) \cup MemoriesOf(reqs)) |-> mems[m]]

\* Variant: the answer is not recorded.
add_ai_message_dropped(history, output) == history

\* chat_memory.add_user_message / add_ai_message: one append each
add_user_message(history, message) == Append(history, [role |-> "human", text |-> message])
add_ai_message(history, output) == Append(history, [role |-> "ai", text |-> output])

\* Variant: the exchange replaces the buffer.
save_context_overwrite(history, message, output) ==
    <<[role |-> "human", text |-> message], [role |-> "ai", text |-> output]>>

\* ConversationBufferMemory.save_context: the exchange is appended, the
\* human turn first.
save_context(history, message, output) ==
    history \o <<[role |-> "human", text |-> message], [role |-> "ai", text |-> output]>>

\* LLMChain.run on the worker thread, after the history was loaded into the
\* prompt: the completion call, then save_context when it did not raise.
chain_run(history, message, outcome) ==
    IF outcome.ok
    THEN [raised |-> FALSE, text |-> outcome.text,
          history |-> save_context(history, message, outcome.text)]
    ELSE [raised |-> TRUE, error |-> outcome.error, history |-> history]

\* the return statement of get_chat_response's try block
get_chat_response_return(text) == [raised |-> FALSE, answer |-> strip(text)]

\* Variant: the except block re-raises.
get_chat_response_reraise(e) == [raised |-> TRUE, error |-> e]

\* the except block of get_chat_response
get_chat_response_except(e) ==
    [raised |-> FALSE,
     answer |-> <<"Desculpe, ocorreu um erro ao processar sua mensagem: ">> \o e]

\* QAService.get_chat_response, from the outcome of the chain
get_chat_response(run) ==
    IF run.raised THEN get_chat_response_except(run.error)
    ELSE get_chat_response_return(run.text)

\* POST /chat
chat(result, session_id) ==
    IF result.raised
    THEN [op |-> "chat", status |-> 500,
          detail |-> <<"Erro interno do servidor: ">> \o result.error]
    ELSE [op |-> "chat", status |-> 200, answer |-> result.answer,
          session_id |-> session_id]

\* DELETE /session/{session_id}
clear_session(session_id) ==
    [op |-> "clear_session", status |-> 200,
     message |-> <<"Historico da sessao ", session_id, " limpo com sucesso">>]

(***************************** document store ******************************)
\* langchain Document built by add_document: the whole content and the
\* metadata (the timestamp, wall-clock time, is left out).
Document(content, filename, document_type) ==
    [page_content |-> [src |-> content.src, from |-> 0, len |-> content.len,
                       blank |-> content.blank],
     metadata |-> [filename |-> filename, type |-> document_type]]

\* RecursiveCharacterTextSplitter over a text without separators: pieces of
\* chunk_size characters, each starting chunk_overlap characters before the
\* end of the one before; the last piece takes the rest.
RECURSIVE split_from(_, _, _)
split_from(src, from, rest) ==
    IF rest <= chunk_size
    THEN <<[src |-> src, from |-> from, len |-> rest, blank |-> FALSE]>>
    ELSE <<[src |-> src, from |-> from, len |-> chunk_size, blank |-> FALSE]>>
         \o split_from(src, from + (chunk_size - chunk_overlap),
                       rest - (chunk_size - chunk_overlap))

\* split_text: whitespace-only and empty texts yield no chunk (chunks are
\* stripped and empty ones dropped).
split_text(text) ==
    IF text.blank \/ text.len = 0 THEN <<>>
    ELSE split_from(text.src, text.from, text.len)

\* text_splitter.split_documents: every chunk keeps its parent's metadata.
RECURSIVE split_documents(_)
split_documents(docs) ==
    IF docs = <<>> THEN <<>>
    ELSE LET d == Head(docs)
             pieces == split_text(d.page_content)
         IN [i \in 1..Len(pieces) |->
                [page_content |-> pieces[i], metadata |-> d.metadata]]
            \o split_documents(Tail(docs))

\* vector_store is None
NoVectorStore == [built |-> FALSE, docs |-> <<>>]

\* FAISS.from_documents(docs, embeddings): embeds every text; raises when
\* the embedding call fails and when there is no text to embed.
from_documents(docs, embed) ==
    IF ~embed.ok THEN [raised |-> TRUE, error |-> embed.error]
    ELSE IF docs = <<>> THEN [raised |-> TRUE, error |-> <<"list index out of range">>]
    ELSE [raised |-> FALSE, store |-> [built |-> TRUE, docs |-> docs]]

\* FAISS.merge_from: the entries of the other index are added to this one.
merge_from(store, other) == [built |-> TRUE, docs |-> store.docs \o other.docs]

\* The branch of add_document that creates or updates the vector store.
index_document(vs, chunks, doc, embed) ==
    IF ~vs.built
    THEN from_documents(chunks, embed)
    ELSE LET new_vector_store == from_documents(<<doc>>, embed)
         IN IF new_vector_store.raised THEN new_vector_store
            ELSE [raised |-> FALSE, store |-> merge_from(vs, new_vector_store.store)]

\* QAService.add_document: the document list and vector store after the
\* call, and the exception it re-raises, if any.
add_document(docs, vs, content, filename, document_type, embed) ==
    LET doc == Document(content, filename, document_type)
        appended == Append(docs, doc)
        chunks == split_documents(appended)
        indexed == index_document(vs, chunks, doc, embed)
    IN IF indexed.raised
       THEN [raised |-> TRUE, error |-> indexed.error,
             documents |-> appended, vector_store |-> vs]
       ELSE [raised |-> FALSE, documents |-> appended, vector_store |-> indexed.store]

\* QAService.get_document_count
get_document_count(docs) == Len(docs)

(* Exceptions inside the handlers *)
HTTPException(status_code, detail) ==
    [kind |-> "HTTPException", status_code |-> status_code, detail |-> detail]
Exception(text) == [kind |-> "Exception", text |-> text]

\* str(e)
str(e) ==
    IF e.kind = "HTTPException" THEN <<ToString(e.status_code), ": ">> \o e.detail
    ELSE e.text

\* file.filename.endswith(('.txt', '.md'))
supported(filename) ==
    endswith(filename, <<".", "t", "x", "t">>) \/ endswith(filename, <<".", "m", "d">>)

\* The try block of upload_document: the exception raised in it, if any, the
\* body it returns otherwise, and the document store it leaves.
upload_document_try(docs, vs, filename, content, document_type, embed) ==
    IF ~supported(filename)
    THEN [exc |-> Some(HTTPException(400, <<"Apenas arquivos .txt e .md sao suportados">>)),
          documents |-> docs, vector_store |-> vs]
    ELSE IF ~content.utf8
    THEN [exc |-> Some(Exception(<<"'utf-8' codec can't decode">>)),
          documents |-> docs, vector_store |-> vs]
    ELSE IF content.blank \/ content.len = 0
    THEN [exc |-> Some(HTTPException(400, <<"O arquivo esta vazio">>)),
          documents |-> docs, vector_store |-> vs]
    ELSE LET added == add_document(docs, vs, content, filename, document_type, embed)
         IN IF added.raised
            THEN [exc |-> Some(Exception(added.error)),
                  documents |-> added.documents, vector_store |-> added.vector_store]
            ELSE [exc |-> None,
                  documents |-> added.documents, vector_store |-> added.vector_store,
                  body |-> [filename |-> filename, size |-> content.len,
                            type |-> document_type,
                            total_documents |-> get_document_count(added.documents)]]

\* The except block of upload_document: every Exception raised in the try
\* block, HTTPException included, is answered with status 500.
upload_document_except(e) ==
    [op |-> "upload_document", status |-> 500,
     detail |-> <<"Erro ao processar documento: ">> \o str(e)]

\* POST /upload-document
upload_document(docs, vs, filename, content, document_type, embed) ==
    LET tried == upload_document_try(docs, vs, filename, content, document_type, embed)
    IN [documents |-> tried.documents, vector_store |-> tried.vector_store,
        response |-> IF tried.exc # None THEN upload_document_except(tried.exc[1])
                     ELSE [op |-> "upload_document", status |-> 200,
                           body |-> tried.body]]

(******************************* RAG answers *******************************)
\* The retriever's answer for k = search_k: min(k, n) distinct entries of
\* the index.  Which entries is decided by the embeddings; their ranking is
\* not modelled, the entries are listed in index order.
RECURSIVE Increasing(_, _, _)
Increasing(lo, n, k) ==
    IF k = 0 THEN {<<>>}
    ELSE UNION {{<<i>> \o rest : rest \in Increasing(i + 1, n, k - 1)} :
                  i \in lo..(n - k + 1)}

Retrievals(vs) == Increasing(1, Len(vs.docs), Min(search_k, Len(vs.docs)))

source_documents(vs, picks) == [i \in DOMAIN picks |-> vs.docs[picks[i]]]

\* Variant: the text is not cut.
format_source_whole(doc) ==
    [filename |-> doc.metadata.filename,
     excerpt |-> [src |-> doc.page_content.src, from |-> doc.page_content.from,
                  len |-> doc.page_content.len],
     ellipsis |-> <<>>]

\* One formatted source, f"[{filename}] {source_text}": the excerpt is the
\* first source_limit characters followed by "..." when the text is longer.
format_source(doc) ==
    LET text == doc.page_content
    IN IF text.len > source_limit
       THEN [filename |-> doc.metadata.filename,
             excerpt |-> [src |-> text.src, from |-> text.from, len |-> source_limit],
             ellipsis |-> <<"...">>]
       ELSE [filename |-> doc.metadata.filename,
             excerpt |-> [src |-> text.src, from |-> text.from, len |-> text.len],
             ellipsis |-> <<>>]

\* len() of the excerpt part of a source and of the whole source string
\* ("[" + filename + "] " + excerpt).
excerpt_len(source) == source.excerpt.len + ellipsis_len * Len(source.ellipsis)
source_len(source) == 1 + Len(source.filename) + 2 + excerpt_len(source)

\* the guard of get_rag_response: no vector store yet
NoDocumentsMessage ==
    <<"Nenhum documento foi carregado ainda. Por favor, faca upload de documentos primeiro.">>

\* Variant: no guard; as_retriever on None raises inside the try block.
get_rag_response_unguarded ==
    [raised |-> FALSE,
     answer |-> <<"Desculpe, ocorreu um erro ao processar sua pergunta: ",
                  "'NoneType' object has no attribute 'as_retriever'">>,
     sources |-> <<>>]

get_rag_response_guard == [raised |-> FALSE, answer |-> NoDocumentsMessage, sources |-> <<>>]

\* the return statement of get_rag_response's try block
get_rag_response_return(text, source_docs) ==
    [raised |-> FALSE, answer |-> strip(text),
     sources |-> [i \in DOMAIN source_docs |-> format_source(source_docs[i])]]

\* the except block of get_rag_response
get_rag_response_except(e) ==
    [raised |-> FALSE,
     answer |-> <<"Desculpe, ocorreu um erro ao processar sua pergunta: ">> \o e,
     sources |-> <<>>]

\* QAService.get_rag_response once the chain has run on the worker thread
get_rag_response(vs, picks, outcome) ==
    IF outcome.ok THEN get_rag_response_return(outcome.text, source_documents(vs, picks))
    ELSE get_rag_response_except(outcome.error)

\* POST /ask
ask_documents(result, session_id) ==
    IF result.raised
    THEN [op |-> "ask", status |-> 500,
          detail |-> <<"Erro interno do servidor: ">> \o result.error]
    ELSE [op |-> "ask", status |-> 200, answer |-> result.answer,
          sources |-> result.sources, session_id |-> session_id]

(**************************** connectivity probe ***************************)
\* Variant: no try/except around the call.
check_ollama_connection_unguarded(outcome) ==
    IF outcome.ok THEN [raised |-> FALSE, value |-> TRUE]
    ELSE [raised |-> TRUE, value |-> FALSE, error |-> outcome.error]

\* QAService.check_ollama_connection: llm.invoke("Hello") in a try/except
check_ollama_connection(outcome) == [raised |-> FALSE, value |-> outcome.ok]

\* GET /health
health_check(outcome) ==
    LET probe == check_ollama_connection(outcome)
    IN IF probe.raised
       THEN [op |-> "health", status |-> 200,
             body |-> [status |-> "unhealthy", ollama_status |-> "error"]]
       ELSE [op |-> "health", status |-> 200,
             body |-> [status |-> IF probe.value THEN "healthy" ELSE "degraded",
                       ollama_status |-> IF probe.value THEN "connected"
                                         ELSE "disconnected"]]

\* GET /stats (QAService.get_stats behind the handler's try/except)
get_stats(docs, sess, outcome) ==
    LET probe == check_ollama_connection(outcome)
    IN IF probe.raised
       THEN [op |-> "stats", status |-> 500,
             detail |-> <<"Erro ao obter estatisticas: ">> \o probe.error]
       ELSE [op |-> "stats", status |-> 200,
             body |-> [documents_loaded |-> get_document_count(docs),
                       active_sessions |-> get_session_count(sess),
                       ollama_connected |-> probe.value]]

(****************************** state machine ******************************)
Idle == [pc |-> "idle"]
NoSessions == [s \in {} |-> 0]
NoMemories == [m \in {} |-> <<>>]
NoResponse == [op |-> "none", status |-> 0]

\* QAService.__init__ and an idle server
Init ==
    /\ sessions = NoSessions
    /\ memories = NoMemories
    /\ documents = <<>>
    /\ vector_store = NoVectorStore
    /\ requests = [r \in Reqs |-> Idle]
    /\ response = NoResponse

\* A new request runs in the first free slot.
FreeSlot(r) ==
    /\ requests[r].pc = "idle"
    /\ \A q \in Reqs : q < r => requests[q].pc # "idle"

ChatInFlight(r) == requests[r].pc \in ChainPcs

\* chats in flight that hold memory object m
Pending(m) == {q \in Reqs : ChatInFlight(q) /\ requests[q].memory = m}

\* POST /chat up to the await: the session's memory is resolved on the event
\* loop and the chain is handed to the worker thread.
ChatStart(r, message, session_id) ==
    /\ FreeSlot(r)
    /\ LET got == get_or_create_session_memory(sessions, memories, session_id)
       IN /\ Len(got.memories[got.memory]) + 2 * (Cardinality(Pending(got.memory)) + 1)
                <= 2 * MaxExchanges
          /\ sessions' = got.sessions
          /\ memories' = got.memories
          /\ requests' = [requests EXCEPT ![r] =
                [pc |-> "chat_submitted", message |-> message,
                 session_id |-> session_id, memory |-> got.memory]]
    /\ UNCHANGED <<documents, vector_store, response>>

\* Worker thread: the chain loads the history into the prompt.
ChatLoad(r) ==
    /\ requests[r].pc = "chat_submitted"
    /\ requests' = [requests EXCEPT ![r] =
          [pc |-> "chat_called", message |-> @.message, session_id |-> @.session_id,
           memory |-> @.memory,
           prompt |-> [history |-> memories[@.memory], question |-> @.message]]]
    /\ UNCHANGED <<sessions, memories, documents, vector_store, response>>

\* Worker thread: the completion call ends; the chain records the exchange
\* when it succeeded, and the handler answers.
ChatFinish(r, outcome) ==
    /\ requests[r].pc = "chat_called"
    /\ LET m == requests[r].memory
           run == chain_run(memories[m], requests[r].message, outcome)
           after == [requests EXCEPT ![r] = Idle]
       IN /\ requests' = after
          /\ memories' = Collect([memories EXCEPT ![m] = run.history], sessions, after)
          /\ response' = chat(get_chat_response(run), requests[r].session_id)
    /\ UNCHANGED <<sessions, documents, vector_store>>

ChatSave(r) == \E o \in LLMOutputs : ChatFinish(r, Completed(o))
ChatFail(r) == \E e \in ErrorTexts : ChatFinish(r, Failed(e))

\* DELETE /session/{session_id}
Clear(session_id) ==
    /\ sessions' = clear_session_memory(sessions, session_id)
    /\ memories' = Collect(memories, sessions', requests)
    /\ response' = clear_session(session_id)
    /\ UNCHANGED <<documents, vector_store, requests>>

\* POST /upload-document
Upload(filename, content, document_type, embed) ==
    LET done == upload_document(documents, vector_store, filename, content,
                                document_type, embed)
    IN /\ Len(done.documents) <= MaxDocs
       /\ documents' = done.documents
       /\ vector_store' = done.vector_store
       /\ response' = done.response
       /\ UNCHANGED <<sessions, memories, requests>>

\* POST /ask when there is no vector store: answered without awaiting
AskNoDocuments(question, session_id) ==
    /\ ~vector_store.built
    /\ response' = ask_documents(get_rag_response_guard, session_id)
    /\ UNCHANGED <<sessions, memories, documents, vector_store, requests>>

\* POST /ask up to the await: the retrieval chain goes to the worker thread.
\* The question reaches only the retriever and the model, whose answers are
\* drawn freely, so the request in flight is not told apart by it.
AskStart(r, question, session_id) ==
    /\ FreeSlot(r)
    /\ vector_store.built
    /\ requests' = [requests EXCEPT ![r] =
          [pc |-> "ask_called", session_id |-> session_id]]
    /\ UNCHANGED <<sessions, memories, documents, vector_store, response>>

\* Worker thread: retrieval and completion succeeded
AskFinish(r, picks, output) ==
    /\ requests[r].pc = "ask_called"
    /\ requests' = [requests EXCEPT ![r] = Idle]
    /\ response' = ask_documents(get_rag_response(vector_store, picks, Completed(output)),
                                 requests[r].session_id)
    /\ UNCHANGED <<sessions, memories, documents, vector_store>>

AskAnswer(r) ==
    /\ requests[r].pc = "ask_called"
    /\ \E p \in Retrievals(vector_store), o \in LLMOutputs : AskFinish(r, p, o)

\* Worker thread: the embedding of the question or the completion failed
AskFail(r, e) ==
    /\ requests[r].pc = "ask_called"
    /\ requests' = [requests EXCEPT ![r] = Idle]
    /\ response' = ask_documents(get_rag_response(vector_store, <<>>, Failed(e)),
                                 requests[r].session_id)
    /\ UNCHANGED <<sessions, memories, documents, vector_store>>

\* GET /health
Health(outcome) ==
    /\ response' = health_check(outcome)
    /\ UNCHANGED <<sessions, memories, documents, vector_store, requests>>

\* GET /stats
Stats(outcome) ==
    /\ response' = get_stats(documents, sessions, outcome)
    /\ UNCHANGED <<sessions, memories, documents, vector_store, requests>>

Next ==
    \/ \E r \in Reqs, m \in Messages, s \in SessionIdInputs : ChatStart(r, m, s)
    \/ \E r \in Reqs : ChatLoad(r)
    \/ \E r \in Reqs : ChatSave(r)
    \/ \E r \in Reqs : ChatFail(r)
    \/ \E s \in SessionNames : Clear(s)
    \/ \E f \in Filenames, c \in FileContents, t \in DocumentTypes, e \in EmbedOutcomes :
          Upload(f, c, t, e)
    \/ \E q \in Questions, s \in SessionIdInputs : AskNoDocuments(q, s)
    \/ \E r \in Reqs, q \in Questions, s \in SessionIdInputs : AskStart(r, q, s)
    \/ \E r \in Reqs : AskAnswer(r)
    \/ \E r \in Reqs, e \in ErrorTexts : AskFail(r, e)
    \/ \E o \in LLMOutcomes : Health(o)
    \/ \E o \in LLMOutcomes : Stats(o)

Spec == Init /\ [][Next]_vars

(* The conversation side alone: chat, session deletion and the probes, on a *)
(* server that holds no document or has ingested one.                       *)
IngestedOne ==
    {add_document(<<>>, NoVectorStore, c, f, t, Completed(<<>>)) :
        c \in {x \in FileContents : x.src = "short"},
        f \in {x \in Filenames : supported(x) /\ Len(x) = 4},
        t \in DocumentTypes}

InitChat ==
    /\ sessions = NoSessions
    /\ memories = NoMemories
    /\ \/ documents = <<>> /\ vector_store = NoVectorStore
       \/ \E d \in IngestedOne :
             documents = d.documents /\ vector_store = d.vector_store
    /\ requests = [r \in Reqs |-> Idle]
    /\ response = NoResponse

NextChat ==
    \/ \E r \in Reqs, m \in Messages, s \in SessionIdInputs : ChatStart(r, m, s)
    \/ \E r \in Reqs : ChatLoad(r)
    \/ \E r \in Reqs : ChatSave(r)
    \/ \E r \in Reqs : ChatFail(r)
    \/ \E s \in SessionNames : Clear(s)
    \/ \E q \in Questions : AskNoDocuments(q, None)
    \/ \E r \in AskReqs, q \in Questions : AskStart(r, q, None)
    \/ \E r \in AskReqs : AskAnswer(r)
    \/ \E r \in AskReqs, e \in ErrorTexts : AskFail(r, e)
    \/ \E o \in LLMOutcomes : Health(o)

SpecChat == InitChat /\ [][NextChat]_vars

(* The document side alone: upload, /ask and /stats, with one /ask in     *)
(* flight at a time.  The session_id of /ask is only echoed in the         *)
(* response.                                                               *)
NextRag ==
    \/ \E f \in Filenames, c \in FileContents, t \in DocumentTypes, e \in EmbedOutcomes :
          Upload(f, c, t, e)
    \/ \E q \in Questions, s \in AskSessionIds : AskNoDocuments(q, s)
    \/ \E r \in AskReqs, q \in Questions, s \in AskSessionIds : AskStart(r, q, s)
    \/ \E r \in AskReqs : AskAnswer(r)
    \/ \E r \in AskReqs, e \in ErrorTexts : AskFail(r, e)
    \/ \E o \in LLMOutcomes : Stats(o)

SpecRag == Init /\ [][NextRag]_vars

(**************************** threads and the loop *************************)
(* The handlers are coroutines of one event loop.  A handler runs on the   *)
(* loop until it awaits; get_chat_response and get_rag_response await the  *)
(* chain, which runs on a worker thread.  add_document and                 *)
(* check_ollama_connection are plain calls: the handler that makes them    *)
(* stays on the loop until they return.                                    *)
LoopPcs == {"upload_appended", "upload_split", "health_probing", "stats_probing"}

\* a handler is running on the event loop
LoopBusy == \E r \in Reqs : requests[r].pc \in LoopPcs

\* Worker thread: the completion call of the chat chain ends.
ChatReturn(r, outcome) ==
    /\ requests[r].pc = "chat_called"
    /\ requests' = [requests EXCEPT ![r] =
          IF outcome.ok
          THEN [pc |-> "chat_returned", message |-> @.message,
                session_id |-> @.session_id, memory |-> @.memory,
                prompt |-> @.prompt, output |-> outcome.text]
          ELSE [pc |-> "chat_done", message |-> @.message,
                session_id |-> @.session_id, memory |-> @.memory,
                prompt |-> @.prompt,
                run |-> [raised |-> TRUE, error |-> outcome.error]]]
    /\ UNCHANGED <<sessions, memories, documents, vector_store, response>>

\* Worker thread: save_context appends the human turn ...
ChatAppendHuman(r) ==
    /\ requests[r].pc = "chat_returned"
    /\ memories' = [memories EXCEPT ![requests[r].memory] =
                        add_user_message(@, requests[r].message)]
    /\ requests' = [requests EXCEPT ![r].pc = "chat_human_saved"]
    /\ UNCHANGED <<sessions, documents, vector_store, response>>

\* ... and then the answer; the chain returns.
ChatAppendAI(r) ==
    /\ requests[r].pc = "chat_human_saved"
    /\ memories' = [memories EXCEPT ![requests[r].memory] =
                        add_ai_message(@, requests[r].output)]
    /\ requests' = [requests EXCEPT ![r] =
          [pc |-> "chat_done", message |-> @.message,
           session_id |-> @.session_id, memory |-> @.memory,
           prompt |-> @.prompt,
           run |-> [raised |-> FALSE, text |-> @.output]]]
    /\ UNCHANGED <<sessions, documents, vector_store, response>>

\* Event loop: get_chat_response resumes after the await and the handler
\* answers.
ChatRespond(r) ==
    /\ requests[r].pc = "chat_done"
    /\ ~LoopBusy
    /\ LET after == [requests EXCEPT ![r] = Idle]
       IN /\ requests' = after
          /\ memories' = Collect(memories, sessions, after)
          /\ response' = chat(get_chat_response(requests[r].run), requests[r].session_id)
    /\ UNCHANGED <<sessions, documents, vector_store>>

(* Chats and deletions at the grain of the threads' steps. *)
TurnMessages == {<<"m1">>, <<"m2">>}
TurnSessionIds == {Some("s1")}

NextTurns ==
    \/ \E r \in Reqs, m \in TurnMessages, s \in TurnSessionIds : ChatStart(r, m, s)
    \/ \E r \in Reqs : ChatLoad(r)
    \/ \E r \in Reqs, o \in LLMOutcomes : ChatReturn(r, o)
    \/ \E r \in Reqs : ChatAppendHuman(r)
    \/ \E r \in Reqs : ChatAppendAI(r)
    \/ \E r \in Reqs : ChatRespond(r)
    \/ Clear("s1")

SpecTurns == Init /\ [][NextTurns]_vars

(* Uploads and probes at the grain of the handlers' steps. *)
UploadPcs == {"upload_reading", "upload_appended", "upload_split"}

UploadsInFlight == {r \in Reqs : requests[r].pc \in UploadPcs}

\* POST /upload-document up to `await file.read()`: the extension was
\* accepted.
UploadRead(r, filename, content, document_type) ==
    /\ FreeSlot(r)
    /\ ~LoopBusy
    /\ supported(filename)
    /\ content.utf8 /\ ~content.blank /\ content.len > 0
    /\ Len(documents) + Cardinality(UploadsInFlight) < MaxDocs
    /\ requests' = [requests EXCEPT ![r] =
          [pc |-> "upload_reading", filename |-> filename, content |-> content,
           document_type |-> document_type]]
    /\ UNCHANGED <<sessions, memories, documents, vector_store, response>>

\* Event loop: the handler resumes, decodes, and add_document appends the
\* document to the list.
UploadAppend(r) ==
    /\ requests[r].pc = "upload_reading"
    /\ ~LoopBusy
    /\ LET doc == Document(requests[r].content, requests[r].filename,
                           requests[r].document_type)
       IN /\ documents' = Append(documents, doc)
          /\ requests' = [requests EXCEPT ![r] = [pc |-> "upload_appended", doc |-> doc]]
    /\ UNCHANGED <<sessions, memories, vector_store, response>>

\* add_document, still on the loop: the whole list is split again.
UploadSplit(r) ==
    /\ requests[r].pc = "upload_appended"
    /\ requests' = [requests EXCEPT ![r] =
          [pc |-> "upload_split", doc |-> @.doc, chunks |-> split_documents(documents)]]
    /\ UNCHANGED <<sessions, memories, documents, vector_store, response>>

\* add_document, still on the loop: the embedding call ends, the index is
\* built or merged, and the handler answers.
UploadIndex(r, embed) ==
    /\ requests[r].pc = "upload_split"
    /\ LET indexed == index_document(vector_store, requests[r].chunks, requests[r].doc, embed)
           doc == requests[r].doc
       IN IF indexed.raised
          THEN /\ vector_store' = vector_store
               /\ response' = upload_document_except(Exception(indexed.error))
          ELSE /\ vector_store' = indexed.store
               /\ response' = [op |-> "upload_document", status |-> 200,
                               body |-> [filename |-> doc.metadata.filename,
                                         size |-> doc.page_content.len,
                                         type |-> doc.metadata.type,
                                         total_documents |-> get_document_count(documents)]]
    /\ requests' = [requests EXCEPT ![r] = Idle]
    /\ UNCHANGED <<sessions, memories, documents>>

\* GET /health: the handler calls check_ollama_connection on the loop ...
HealthProbe(r) ==
    /\ FreeSlot(r)
    /\ ~LoopBusy
    /\ requests' = [requests EXCEPT ![r] = [pc |-> "health_probing"]]
    /\ UNCHANGED <<sessions, memories, documents, vector_store, response>>

\* ... and answers when llm.invoke has returned or raised.
HealthAnswer(r, outcome) ==
    /\ requests[r].pc = "health_probing"
    /\ requests' = [requests EXCEPT ![r] = Idle]
    /\ response' = health_check(outcome)
    /\ UNCHANGED <<sessions, memories, documents, vector_store>>

\* GET /stats: get_stats calls check_ollama_connection on the loop ...
StatsProbe(r) ==
    /\ FreeSlot(r)
    /\ ~LoopBusy
    /\ requests' = [requests EXCEPT ![r] = [pc |-> "stats_probing"]]
    /\ UNCHANGED <<sessions, memories, documents, vector_store, response>>

\* ... and answers when llm.invoke has returned or raised.
StatsAnswer(r, outcome) ==
    /\ requests[r].pc = "stats_probing"
    /\ requests' = [requests EXCEPT ![r] = Idle]
    /\ response' = get_stats(documents, sessions, outcome)
    /\ UNCHANGED <<sessions, memories, documents, vector_store>>

LoopFilenames == {f \in Filenames : supported(f)}
LoopContents == {c \in FileContents : c.src = "short"}

NextLoop ==
    \/ \E r \in Reqs, f \in LoopFilenames, c \in LoopContents, t \in DocumentTypes :
          UploadRead(r, f, c, t)
    \/ \E r \in Reqs : UploadAppend(r)
    \/ \E r \in Reqs : UploadSplit(r)
    \/ \E r \in Reqs, e \in EmbedOutcomes : UploadIndex(r, e)
    \/ \E r \in Reqs : HealthProbe(r)
    \/ \E r \in Reqs, o \in LLMOutcomes : HealthAnswer(r, o)
    \/ \E r \in Reqs : StatsProbe(r)
    \/ \E r \in Reqs, o \in LLMOutcomes : StatsAnswer(r, o)
    \/ \E r \in Reqs, m \in Messages : ~LoopBusy /\ ChatStart(r, m, None)
    \/ \E r \in Reqs : ChatLoad(r)
    \/ \E r \in Reqs, o \in LLMOutcomes : ChatReturn(r, o)
    \/ \E r \in Reqs : ChatAppendHuman(r)
    \/ \E r \in Reqs : ChatAppendAI(r)
    \/ \E r \in Reqs : ChatRespond(r)
    \/ \E r \in Reqs, q \in Questions : ~LoopBusy /\ AskStart(r, q, None)
    \/ \E r \in Reqs : ~LoopBusy /\ AskAnswer(r)
    \/ \E r \in Reqs, e \in ErrorTexts : ~LoopBusy /\ AskFail(r, e)

SpecLoop == Init /\ [][NextLoop]_vars

(******************************** properties *******************************)
Named(session_id) == ~Falsy(session_id)

\* the chat in slot r still writes to the memory its session id maps to
Recorded(r) ==
    /\ Named(requests[r].session_id)
    /\ requests[r].session_id[1] \in DOMAIN sessions
    /\ sessions[requests[r].session_id[1]] = requests[r].memory

ChatApology(e) == <<"Desculpe, ocorreu um erro ao processar sua mensagem: ">> \o e
AskApology(e) == <<"Desculpe, ocorreu um erro ao processar sua pergunta: ">> \o e

\* C1: get_chat_response and get_rag_response never raise.  Whatever the
\* outcome of the model call or the retrieval, POST /chat and POST /ask
\* answer 200; when the call failed the answer is the apology that embeds
\* the error text and, for /ask, the source list is empty.
C1_FailSoft ==
    [][\A r \in Reqs :
          /\ \A e \in ErrorTexts :
                ChatFinish(r, Failed(e)) =>
                    /\ response'.op = "chat" /\ response'.status = 200
                    /\ response'.answer = ChatApology(e)
                    /\ Embeds(response'.answer, e)
          /\ ChatSave(r) => response'.op = "chat" /\ response'.status = 200
          /\ \A e \in ErrorTexts :
                AskFail(r, e) =>
                    /\ response'.op = "ask" /\ response'.status = 200
                    /\ response'.answer = AskApology(e)
                    /\ Embeds(response'.answer, e)
                    /\ response'.sources = <<>>
          /\ AskAnswer(r) => response'.op = "ask" /\ response'.status = 200
      ]_vars

\* a chat under a session id was answered 200 with the apology
C1_Witness ==
    /\ response.op = "chat"
    /\ response.status = 200
    /\ Named(response.session_id)
    /\ \E e \in ErrorTexts : response.answer = ChatApology(e)

\* C2 as claimed: every chat call that completes under a session id leaves
\* that session's recorded history strictly longer than it was when the call
\* before it had completed.
C2_GrowsOnEveryCall ==
    [][\A r \in Reqs :
          ((ChatSave(r) \/ ChatFail(r)) /\ Recorded(r)) =>
              Len(memories'[requests[r].memory]) > Len(memories[requests[r].memory])
      ]_vars

\* C2 amended: a chat call under a session id whose model call succeeds
\* leaves the recorded history longer by the two turns of its exchange; one
\* whose model call fails leaves it as it was, never shorter.
C2_GrowsOnSuccess ==
    [][\A r \in Reqs :
          /\ (ChatSave(r) /\ Recorded(r)) =>
                Len(memories'[requests[r].memory]) = Len(memories[requests[r].memory]) + 2
          /\ (ChatFail(r) /\ Recorded(r)) =>
                memories'[requests[r].memory] = memories[requests[r].memory]
      ]_vars

\* two calls under one session id have completed and both were recorded
C2_Witness ==
    /\ response.op = "chat"
    /\ Named(response.session_id)
    /\ response.session_id[1] \in DOMAIN sessions
    /\ Len(memories[sessions[response.session_id[1]]]) = 4

\* C3: DELETE /session/{id} leaves no entry for the identifier, and a chat
\* under an identifier without entry (never used, or deleted) gets a new
\* empty memory that no other request holds and that becomes the entry.
C3_FreshAfterDelete ==
    [][\A s \in SessionNames :
          /\ Clear(s) => s \notin DOMAIN sessions'
          /\ \A r \in Reqs, m \in Messages :
                (ChatStart(r, m, Some(s)) /\ s \notin DOMAIN sessions) =>
                    /\ s \in DOMAIN sessions'
                    /\ sessions'[s] = requests'[r].memory
                    /\ requests'[r].memory \notin DOMAIN memories
                    /\ memories'[requests'[r].memory] = <<>>
                    /\ \A q \in Reqs \ {r} :
                          ChatInFlight(q) => requests[q].memory # requests'[r].memory
      ]_vars

\* a chat started after the deletion of its session reads an empty history
\* while a chat started before the deletion still holds the old turns
C3_Witness ==
    \E r, q \in Reqs, s \in SessionNames :
        /\ response = clear_session(s)
        /\ requests[r].pc = "chat_called"
        /\ requests[r].session_id = Some(s)
        /\ requests[r].prompt.history = <<>>
        /\ s \in DOMAIN sessions
        /\ sessions[s] = requests[r].memory
        /\ ChatInFlight(q)
        /\ requests[q].session_id = Some(s)
        /\ requests[q].memory # requests[r].memory
        /\ Len(memories[requests[q].memory]) = 2

\* File content that is empty after strip()
EmptyContent(content) == content.utf8 /\ (content.blank \/ content.len = 0)

\* C4: an upload that fails validation (unsupported extension, or content
\* empty after stripping) is answered 400 and leaves the document list and
\* the index unchanged.
C4_InvalidUploadIs400 ==
    [][\A f \in Filenames, c \in FileContents, t \in DocumentTypes, e \in EmbedOutcomes :
          (Upload(f, c, t, e) /\ (~supported(f) \/ EmptyContent(c))) =>
              /\ response'.status = 400
              /\ documents' = documents
              /\ vector_store' = vector_store
      ]_vars

\* the answer of /ask when no document is loaded
NoDocumentsAnswer(session_id) ==
    [op |-> "ask", status |-> 200, answer |-> NoDocumentsMessage,
     sources |-> <<>>, session_id |-> session_id]

\* C5: while no document has been ingested there is no vector store, and
\* /ask returns the fixed message with no sources for every question,
\* without handing anything to the worker thread; an upload answered 200
\* builds the vector store, the vector store is never dropped, and with a
\* vector store /ask no longer returns the fixed message.
C5_NoDocumentsSentinel ==
    [][/\ documents = <<>> => ~vector_store.built
       /\ \A q \in Questions, s \in AskSessionIds :
             /\ ~vector_store.built => \A r \in Reqs : ~AskStart(r, q, s)
             /\ AskNoDocuments(q, s) =>
                   response' = NoDocumentsAnswer(s) /\ requests' = requests
             /\ vector_store.built => ~AskNoDocuments(q, s)
       /\ (response'.op = "upload_document" /\ response'.status = 200
           /\ documents' # documents) => vector_store'.built
       /\ vector_store.built => vector_store'.built
       /\ \A r \in Reqs :
             (requests[r].pc = "ask_called" /\ requests'[r].pc = "idle") =>
                 /\ response'.op = "ask"
                 /\ response'.answer # NoDocumentsMessage
      ]_vars

\* /ask was answered with the fixed message on a server without documents
C5_Witness ==
    /\ documents = <<>>
    /\ response = NoDocumentsAnswer(Some("s1"))

\* the texts a store or a list of chunks holds
Texts(docs) == {docs[i].page_content : i \in DOMAIN docs}

\* C6: after every successful ingestion the set of texts in the index is
\* the set of chunks of all ingested documents, and no entry of the index is
\* ever removed.
C6_IndexIsChunksOfAll ==
    [][\A f \in Filenames, c \in FileContents, t \in DocumentTypes, e \in EmbedOutcomes :
          (/\ Upload(f, c, t, e)
           /\ response'.status = 200
           /\ Texts(vector_store.docs) = Texts(split_documents(documents))) =>
              /\ Texts(vector_store'.docs) = Texts(split_documents(documents'))
              /\ Texts(vector_store.docs) \subseteq Texts(vector_store'.docs)
      ]_vars

\* the server has ingested exactly one document and answered a question
AnsweredFromOne ==
    /\ Len(documents) = 1
    /\ vector_store.built
    /\ response.op = "ask"
    /\ response.status = 200

\* C7 as claimed: with one document ingested, an answered question carries
\* at most three sources, each source string at most 203 characters long
\* and tagged with the document's filename.
C7_SourceStringBounded ==
    AnsweredFromOne =>
        /\ Len(response.sources) <= search_k
        /\ \A i \in DOMAIN response.sources :
              /\ source_len(response.sources[i]) <= source_limit + ellipsis_len
              /\ response.sources[i].filename = documents[1].metadata.filename

\* C7 amended: with one document ingested, an answered question carries at
\* most three sources, each tagged with the document's filename; the excerpt
\* after the tag is at most 203 characters (200 characters and "..."), so
\* the source string is at most 203 characters plus the "[filename] " tag.
C7_ExcerptBounded ==
    AnsweredFromOne =>
        /\ Len(response.sources) <= search_k
        /\ \A i \in DOMAIN response.sources :
              /\ excerpt_len(response.sources[i]) <= source_limit + ellipsis_len
              /\ source_len(response.sources[i])
                    <= source_limit + ellipsis_len + Len(documents[1].metadata.filename) + 3
              /\ response.sources[i].filename = documents[1].metadata.filename

\* one document split into more than three chunks produced three truncated
\* sources
C7_Witness ==
    /\ AnsweredFromOne
    /\ Len(vector_store.docs) > search_k
    /\ Len(response.sources) = search_k
    /\ \A i \in DOMAIN response.sources :
          excerpt_len(response.sources[i]) = source_limit + ellipsis_len

\* C8: GET /health answers 200 whether or not the inference server is
\* reachable, with healthy/connected when the probe succeeds and
\* degraded/disconnected when it fails, and changes nothing on the server.
C8_HealthAlways200 ==
    [][\A o \in LLMOutcomes :
          Health(o) =>
              /\ response'.op = "health"
              /\ response'.status = 200
              /\ response'.body = IF o.ok
                                  THEN [status |-> "healthy", ollama_status |-> "connected"]
                                  ELSE [status |-> "degraded", ollama_status |-> "disconnected"]
              /\ UNCHANGED <<sessions, memories, documents, vector_store, requests>>
      ]_vars

\* the probe failed on a server that holds a session, a document and a chat
\* in flight
C8_Witness ==
    /\ response.op = "health"
    /\ response.status = 200
    /\ response.body.status = "degraded"
    /\ sessions # NoSessions
    /\ documents # <<>>
    /\ \E r \in Reqs : ChatInFlight(r)

\* the chat in slot r was sent without session id
Anonymous(r) == ChatInFlight(r) /\ Falsy(requests[r].session_id)

\* C9: a chat without session id (absent or empty) runs on a new empty
\* memory that is not stored and that no other request holds: it reads no
\* earlier turn, and neither the session map nor any stored history changes
\* from its start to its answer.
C9_AnonymousIsFresh ==
    [][\A r \in Reqs :
          /\ \A m \in Messages, s \in {x \in SessionIdInputs : Falsy(x)} :
                ChatStart(r, m, s) =>
                    /\ sessions' = sessions
                    /\ requests'[r].memory \notin DOMAIN memories
                    /\ memories'[requests'[r].memory] = <<>>
                    /\ requests'[r].memory \notin Range(sessions')
                    /\ \A q \in Reqs \ {r} :
                          ChatInFlight(q) => requests[q].memory # requests'[r].memory
                    /\ \A k \in DOMAIN memories : memories'[k] = memories[k]
          /\ (ChatLoad(r) /\ Anonymous(r)) => requests'[r].prompt.history = <<>>
          /\ ((ChatSave(r) \/ ChatFail(r)) /\ Anonymous(r)) =>
                /\ sessions' = sessions
                /\ \A s \in DOMAIN sessions : memories'[sessions[s]] = memories[sessions[s]]
                /\ requests'[r] = Idle
                /\ requests[r].memory \notin DOMAIN memories'
      ]_vars

\* two chats without session id are in flight on different memories, the
\* second started after the first had read its history, and a session with
\* recorded turns exists
C9_Witness ==
    \E r, q \in Reqs :
        /\ r # q
        /\ Anonymous(r) /\ Anonymous(q)
        /\ requests[r].session_id = None
        /\ requests[q].session_id = Some("")
        /\ requests[r].memory # requests[q].memory
        /\ requests[r].pc = "chat_called"
        /\ requests[r].prompt.history = <<>>
        /\ \E s \in DOMAIN sessions : Len(memories[sessions[s]]) >= 2

\* C10: DELETE /session/{id} removes the entry of that identifier and
\* nothing else: every other session keeps its memory and its turns, the
\* documents and the index are untouched, and for an identifier without
\* entry nothing changes; the answer is 200 either way.
C10_ClearRemovesOnlyThat ==
    [][\A s \in SessionNames :
          Clear(s) =>
              /\ DOMAIN sessions' = DOMAIN sessions \ {s}
              /\ \A k \in DOMAIN sessions' :
                    /\ sessions'[k] = sessions[k]
                    /\ memories'[sessions'[k]] = memories[sessions[k]]
              /\ s \notin DOMAIN sessions => (sessions' = sessions /\ memories' = memories)
              /\ documents' = documents /\ vector_store' = vector_store
              /\ requests' = requests
              /\ response'.status = 200
      ]_vars

\* a session was deleted while another session with recorded turns and a
\* document stayed
C10_Witness ==
    \E s \in SessionNames :
        /\ response = clear_session(s)
        /\ s \notin DOMAIN sessions
        /\ \E k \in DOMAIN sessions : Len(memories[sessions[k]]) >= 2
        /\ documents # <<>>
        /\ \E r \in Reqs : ChatInFlight(r) /\ requests[r].session_id = Some(s)

Human(message) == [role |-> "human", text |-> message]
AI(output) == [role |-> "ai", text |-> output]

\* the chain of the chat in slot r has returned an answer
Answered(r) == requests[r].pc = "chat_done" /\ ~requests[r].run.raised

\* C11: the prompt of a chat call holds all turns recorded when it is built;
\* a call whose model call succeeds appends exactly two turns to the history
\* it was given, the user message and then the answer, and changes no other
\* history; when no other call appended in between, the history after the
\* call is the prompt's history followed by these two turns, so the second
\* of two sequential calls under one identifier leaves user, assistant,
\* user, assistant.
C11_TwoTurnsPerCall ==
    [][\A r \in Reqs :
          /\ ChatLoad(r) => requests'[r].prompt.history = memories[requests[r].memory]
          /\ ChatAppendHuman(r) =>
                /\ memories'[requests[r].memory] =
                      memories[requests[r].memory] \o <<Human(requests[r].message)>>
                /\ \A k \in DOMAIN memories \ {requests[r].memory} :
                      memories'[k] = memories[k]
          /\ ChatAppendAI(r) =>
                /\ memories'[requests[r].memory] =
                      memories[requests[r].memory] \o <<AI(requests[r].output)>>
                /\ \A k \in DOMAIN memories \ {requests[r].memory} :
                      memories'[k] = memories[k]
                /\ Len(memories'[requests[r].memory]) = Len(requests[r].prompt.history) + 2
                      => memories'[requests[r].memory] =
                            requests[r].prompt.history
                               \o <<Human(requests[r].message), AI(requests[r].output)>>
          /\ (requests[r].pc = "chat_called" /\ requests'[r].pc = "chat_done") =>
                memories' = memories
      ]_vars

\* the second of two sequential calls under one identifier has returned:
\* its prompt held the first exchange and the history holds four turns
C11_Witness ==
    \E r \in Reqs :
        /\ Answered(r)
        /\ Recorded(r)
        /\ \A q \in Reqs \ {r} : requests[q].pc = "idle"
        /\ \E m1, m2 \in TurnMessages, o1, o2 \in LLMOutputs :
              /\ m1 # m2
              /\ requests[r].prompt.history = <<Human(m1), AI(o1)>>
              /\ memories[requests[r].memory] = <<Human(m1), AI(o1), Human(m2), AI(o2)>>

\* the call of add_document made for the upload in slot r is under way
InAddDocument(r) == requests[r].pc \in {"upload_appended", "upload_split"}

\* C12: two concurrent add_document calls are not mutually excluded: while
\* one call is between its steps (after the append, after the split), the
\* other upload can take its own next step.
C12_AddDocumentInterleaves ==
    \A r, q \in Reqs :
        (InAddDocument(r) /\ requests[q].pc = "upload_reading") =>
            ENABLED UploadAppend(q)

\* the request in slot r is waiting for an answer of the inference server
Waiting(r) ==
    requests[r].pc \in {"chat_called", "ask_called", "upload_split",
                        "health_probing", "stats_probing"}

\* C13: while a request (chat, ask, upload, health, stats) is waiting on
\* the inference server, the call runs on a worker thread and the event
\* loop can start handling another request.
C13_LoopFreeWhileWaiting ==
    \A r, q \in Reqs :
        (Waiting(r) /\ FreeSlot(q)) => ENABLED HealthProbe(q)

\* the chat in slot r has not answered yet
ChatOpen(r) == requests[r].pc \in ChainPcs \cup {"chat_done"}

\* C14: a chat under an identifier that has an entry is given the entry's
\* own history object, not a copy, and no step of a chat waits for another
\* chat: loading the history and each append are possible whenever the chat
\* has reached them, and an append goes to the buffer as it is then, whether
\* or not the prompt held its turns.  So two chats on one identifier can
\* both load before either appends, and the one finishing second records
\* its exchange after a prompt without the other's turns.
C14_SharedHistoryNoLock ==
    [][\A r \in Reqs :
          /\ \A m \in TurnMessages, s \in SessionNames :
                (ChatStart(r, m, Some(s)) /\ s \in DOMAIN sessions) =>
                    /\ requests'[r].memory = sessions[s]
                    /\ sessions' = sessions
                    /\ memories' = memories
          /\ requests[r].pc = "chat_submitted" => ENABLED ChatLoad(r)
          /\ requests[r].pc = "chat_returned" => ENABLED ChatAppendHuman(r)
          /\ requests[r].pc = "chat_human_saved" => ENABLED ChatAppendAI(r)
          /\ ChatAppendHuman(r) =>
                SubSeq(memories'[requests[r].memory], 1, Len(memories[requests[r].memory]))
                    = memories[requests[r].memory]
          /\ ChatAppendAI(r) =>
                /\ SubSeq(memories'[requests[r].memory], 1, Len(memories[requests[r].memory]))
                      = memories[requests[r].memory]
                /\ requests'[r].prompt = requests[r].prompt
      ]_vars

\* two chats on one identifier loaded the empty history; the second to
\* finish has recorded its exchange behind the exchange of the first
C14_Witness ==
    \E r \in Reqs, m1, m2 \in TurnMessages, o \in LLMOutputs :
        /\ m1 # m2
        /\ Answered(r)
        /\ Recorded(r)
        /\ requests[r].message = m2
        /\ requests[r].prompt.history = <<>>
        /\ memories[requests[r].memory] = <<Human(m1), AI(o), Human(m2), AI(o)>>

\* C16: a deletion detaches the history of every chat still open under the
\* identifier; such a chat appends its exchange to the detached history
\* only, leaving every history of the session map as it is, and no step of
\* a chat after its start changes the session map, so the entry is not put
\* back; a chat started under the identifier afterwards gets a new empty
\* history that no open chat holds.
C16_DeleteDetachesInFlight ==
    [][\A r \in Reqs :
          /\ \A s \in SessionNames :
                (Clear(s) /\ ChatOpen(r) /\ requests[r].session_id = Some(s)) =>
                    /\ s \notin DOMAIN sessions'
                    /\ requests'[r].memory \notin Range(sessions')
                    /\ memories'[requests'[r].memory] = memories[requests[r].memory]
          /\ ((ChatAppendHuman(r) \/ ChatAppendAI(r)) /\ ~Recorded(r)) =>
                /\ Len(memories'[requests[r].memory]) = Len(memories[requests[r].memory]) + 1
                /\ \A k \in DOMAIN sessions : memories'[sessions[k]] = memories[sessions[k]]
          /\ (ChatOpen(r) /\ requests'[r] # requests[r]) => sessions' = sessions
          /\ \A m \in TurnMessages, s \in SessionNames :
                (ChatStart(r, m, Some(s)) /\ s \notin DOMAIN sessions) =>
                    /\ memories'[sessions'[s]] = <<>>
                    /\ \A q \in Reqs \ {r} :
                          ChatOpen(q) => requests[q].memory # sessions'[s]
      ]_vars

\* a chat answered on a detached history holding only its own exchange,
\* while the identifier's new entry holds only the exchange of a chat
\* started after the deletion
C16_Witness ==
    \E r \in Reqs, m1, m2 \in TurnMessages, o \in LLMOutputs :
        /\ m1 # m2
        /\ Answered(r)
        /\ requests[r].session_id = Some("s1")
        /\ requests[r].message = m2
        /\ "s1" \in DOMAIN sessions
        /\ sessions["s1"] # requests[r].memory
        /\ memories[requests[r].memory] = <<Human(m2), AI(o)>>
        /\ memories[sessions["s1"]] = <<Human(m1), AI(o)>>

\* C15: an upload whose add_document raises leaves the document list and
\* the index as they were, so that in every state the index is absent
\* exactly when the document list is empty and every document counted by
\* documents_loaded is in the index.
C15_FailedAddLeavesNoTrace ==
    [][/\ \A f \in Filenames, c \in FileContents, t \in DocumentTypes, e \in EmbedOutcomes :
             (Upload(f, c, t, e) /\ response'.status # 200) =>
                 documents' = documents /\ vector_store' = vector_store
       /\ vector_store'.built <=> documents' # <<>>
       /\ \A i \in DOMAIN documents' :
             \E j \in DOMAIN vector_store'.docs :
                 /\ vector_store'.docs[j].metadata = documents'[i].metadata
                 /\ vector_store'.docs[j].page_content.src = documents'[i].page_content.src
      ]_vars

====
